---- MODULE Spec2Model ----
(***************************************************************************)
(* A model of automated-file-generator.py: the SumoApp window (generate    *)
(* button, bounds callback, log view), the SumoWorker thread that walks    *)
(* the SUMO pipeline, the file system the external tools write to, and the *)
(* queue of signals the worker posts to the GUI thread.                    *)
(***************************************************************************)
EXTENDS Integers, Sequences, FiniteSets, TLC

\* ------------------------------------------------------------------ bounds
\* SumoWorker objects created in one behaviour.
MaxRuns == 2
\* runJavaScript calls whose callback has not been delivered yet.
MaxPending == 2
\* Faults of the environment a directly started worker meets: a command that
\* fails or leaves no output, a rename or an open that raises, a temporary file
\* that cannot be removed.
MaxFaults == 1
\* Whole degrees of a rectangle's west edge either side of 0.
MaxLon == 400

Workers == 1..MaxRuns
NoWorker == 0

\* ------------------------------------------------------------ input sets
\* File names are sequences of pieces, so that an f-string is a concatenation
\* and two names are equal exactly when their texts are.
\* ---------------------------------------------------- JavaScript numbers
\* A longitude is an IEEE 754 double. The double x is kept exactly, as
\*     x = k + (fh * LoLimb + fl) / 2^45
\* with k the whole degrees below x (its floor) and the fraction of 45 binary
\* places in two limbs. Every double of magnitude 128 and more is of this form,
\* and so is every multiple of 2^-45 of smaller magnitude.
LoLimb == 8388608
HiLimb == 4194304
Dbl(k, fh, fl) == [k |-> k, fh |-> fh, fl |-> fl]
Whole(k) == Dbl(k, 0, 0)
IsWhole(x) == x.fh = 0 /\ x.fl = 0

\* The whole part of |x|.
IntPart(x) == IF x.k >= 0 THEN x.k ELSE IF IsWhole(x) THEN -x.k ELSE -x.k - 1

RECURSIVE Spacing(_)
\* The distance between neighbouring doubles of whole part m (53 significant
\* bits), in units of 2^-45: 2^-44 from 256 on, 2^-43 from 512 on, and so on.
Spacing(m) == IF m < 256 THEN 1 ELSE 2 * Spacing(m \div 2)

\* x is a double: its fraction lies on the grid of its magnitude.
IsDouble(x) == x.fl % Spacing(IntPart(x)) = 0

\* The double nearest to the exact value x, a tie going to the even neighbour.
RoundD(x) ==
    LET s == Spacing(IntPart(x))
        r == x.fl % s
        down == x.fl - r
        fl == IF r = 0 THEN x.fl
              ELSE IF 2 * r < s THEN down
              ELSE IF 2 * r > s THEN down + s
              ELSE IF (down \div s) % 2 = 0 THEN down ELSE down + s
    IN  IF fl < LoLimb THEN [x EXCEPT !.fl = fl]
        ELSE IF x.fh + 1 < HiLimb THEN [x EXCEPT !.fh = @ + 1, !.fl = 0]
        ELSE Whole(x.k + 1)

\* JavaScript's x + c for a whole number c: the exact sum, rounded.
AddD(x, c) == RoundD([x EXCEPT !.k = @ + c])

\* JavaScript's x % n for a whole number n > 0: exact, with the sign of x.
RemD(x, n) ==
    IF x.k >= 0 THEN [x EXCEPT !.k = @ % n]
    ELSE IF IsWhole(x) THEN [x EXCEPT !.k = -((-@) % n)]
    ELSE [x EXCEPT !.k = -((-@ - 1) % n) - 1]

\* The text of the filename line edit as the window sets it.
DefaultFilename == <<"VeinsScenario">>
\* Base file names a run can be configured with.
Bases == {DefaultFilename, <<"routes">>}
\* Rectangles the user can draw (west and east are already longitudes).
Boxes == {[south |-> 34, north |-> 35, west |-> Whole(-119), east |-> Whole(-118)]}
\* Values of the two spin boxes as the window sets them.
DefaultTime == 3600
DefaultTrips == 1000
\* The range of the vehicles spin box.
MinTrips == 1
MaxTrips == 100000
\* Counts the user enters into the vehicles box: none, and the least the box takes.
TripEntries == {0, MinTrips}
\* Configs a SumoWorker can be constructed with directly: __init__ takes any
\* count, one of 0 too.
DirectTimes == {DefaultTime, 7200}
DirectTrips == {0, DefaultTrips}

\* ------------------------------------------------------------ file names
F(base, ext) == base \o ext
OmnetppIni == <<"omnetpp", ".ini">>
RoutesTmp == <<"routes", ".rou", ".xml">>
OsmExt == <<".osm">>
BboxExt == <<"_bbox", ".osm", ".xml">>
OsmXmlExt == <<".osm", ".xml">>
NetExt == <<".net", ".xml">>
PolyExt == <<".poly", ".xml">>
TripExt == <<".trip", ".xml">>
RouExt == <<".rou", ".xml">>
RouAltExt == <<".rou", ".alt", ".xml">>
LaunchdExt == <<".launchd", ".xml">>
SumoCfgExt == <<".sumo", ".cfg">>
Exts == {OsmExt, BboxExt, OsmXmlExt, NetExt, PolyExt, TripExt, RouExt, RouAltExt,
         LaunchdExt, SumoCfgExt}
AllFiles == {F(b, e) : b \in Bases, e \in Exts} \cup {OmnetppIni, RoutesTmp}
\* File contents: every content is a record with its kind.
Absent == [kind |-> "absent"]
Data == [kind |-> "data"]
\* A file just opened for writing: there, with 0 bytes.
Empty == [kind |-> "empty"]
\* A directory that does not exist.
NoDir == "absent"

VARIABLES
    \* the window
    btn_generate,   \* the generate button is enabled
    log_view,       \* the lines of the log view, by the worker whose signal appended them
    jsCalls,        \* runJavaScript calls in flight: Call, or the value to call back with
    msgbox,         \* the kind of the message box shown last
    worker,         \* self.worker: the latest SumoWorker, or NoWorker
    tabs,           \* the index of the tab shown
    filename_edit, time_spin, trips_spin,
    trips_entered,  \* the count last entered into the vehicles box
    \* the map page
    drawnItems, lastLayer,
    \* the slot calls queued in the GUI thread, by the worker that emitted them
    guiQueue,
    \* the process environment and the file system
    environ,        \* os.environ['SUMO_HOME']: "unset", "envdir" or "fallback"
    dirs,           \* what each of the two directories holds: absent, noTypemap, full
    fs,             \* file name -> content, or Absent
    plan,           \* how the environment behaves: each command's outcome, the faults
    \* the workers
    pc,             \* where the thread is: the call it is about to return from
    config, sumo_home,
    generated_file, \* create_files' local: the file glob found
    cmds, written, cleaned, raised, emitted, connected

guiVars == <<btn_generate, log_view, jsCalls, msgbox, worker, tabs, filename_edit, time_spin, trips_spin, trips_entered>>
mapVars == <<drawnItems, lastLayer>>
envVars == <<environ, dirs, fs, plan>>
histVars == <<cmds, written, cleaned, raised>>
workerVars == <<pc, config, sumo_home, generated_file, cmds, written, cleaned, raised, emitted, connected>>
vars == <<guiVars, mapVars, guiQueue, envVars, workerVars>>

Exists(f) == fs[f] # Absent
ExistsIn(g, f) == g[f] # Absent

\* ---------------------------------------------------------------- signals
Msg(a, b) == <<a, b>>
LogEv(w, m) == [kind |-> "log", w |-> w, msg |-> m, ok |-> FALSE]
FinEv(w, ok) == [kind |-> "finished", w |-> w, msg |-> <<>>, ok |-> ok]
Logs(w, ms) == [i \in 1..Len(ms) |-> LogEv(w, ms[i])]

\* pyqtSignal.emit: every emission reaches each connected slot; the slots live in
\* the GUI thread, so the calls are queued there in emission order. The calls
\* are kept by sender: two worker threads emit unsynchronised, and the order in
\* which the GUI thread sees calls of different senders is any interleaving.
Emit(w, evs) ==
    /\ emitted' = [emitted EXCEPT ![w] = @ \o evs]
    /\ guiQueue' = IF connected[w] THEN [guiQueue EXCEPT ![w] = @ \o evs] ELSE guiQueue

\* ------------------------------------------------------- external commands
\* What one external command did: whether it could be launched, its exit
\* status, how much it printed, and the files (by extension) it left behind.
Outcome(l, rc, out, err, made) ==
    [launch |-> l, rc |-> rc, stdout |-> out, stderr |-> err, made |-> made]

ProducedBy(desc) ==
    CASE desc = "OSM Download" -> {BboxExt}
      [] desc = "Netconvert" -> {NetExt}
      [] desc = "Polyconvert" -> {PolyExt}
      [] desc = "Random Trips" -> {TripExt}
      [] desc = "DUAROUTER" -> {RouExt, RouAltExt}

Descs == {"OSM Download", "Netconvert", "Polyconvert", "Random Trips", "DUAROUTER"}

\* The ways a command can go: it writes its output and exits 0; it exits 0
\* and leaves no output; it exits non-zero; its executable is not found; Popen
\* raises something else; the downloader names its output <base>.osm.xml.
Kinds == {"ok", "nofile", "fail", "notfound", "oserror", "alt"}

ToolOutcome(desc, kind) ==
    CASE kind = "ok" -> Outcome("ok", 0, "short", "none", ProducedBy(desc))
      [] kind = "nofile" -> Outcome("ok", 0, "none", "short", {})
      [] kind = "fail" -> Outcome("ok", 1, "long", "long", {})
      [] kind = "notfound" -> Outcome("notfound", 0, "none", "none", {})
      [] kind = "oserror" -> Outcome("oserror", 0, "none", "none", {})
      [] kind = "alt" -> Outcome("ok", 0, "short", "none", {OsmXmlExt})

\* A python script under SUMO_HOME/tools that is not there: python prints its
\* one-line "can't open file" on stderr, nothing on stdout, and exits with 2.
ScriptMissing == Outcome("ok", 2, "none", "short", {})

StdLog(tag, text) ==
    IF text = "none" THEN <<>>
    ELSE IF text = "long" THEN <<Msg(tag, "truncated")>> ELSE <<Msg(tag, "full")>>

RunCommandOk(o) == o.launch = "ok" /\ o.rc = 0

\* run_command from the return of communicate() on, or from the exception
\* Popen raised: the lines it logs.
ResultLogs(desc, o) ==
    IF o.launch = "ok"
    THEN StdLog("[STDOUT]", o.stdout) \o StdLog("[STDERR]", o.stderr) \o
         <<IF o.rc = 0 THEN Msg("finished successfully", desc)
           ELSE Msg("failed with return code", desc)>>
    ELSE IF o.launch = "notfound" THEN <<Msg("Command not found", desc)>>
    ELSE <<Msg("Error executing", desc)>>

\* The files a command that ran leaves in the working directory.
AfterCommand(g, base, o) ==
    [f \in AllFiles |->
        IF o.launch = "ok" /\ \E e \in o.made : f = F(base, e) THEN Data ELSE g[f]]

\* ------------------------------------------------ create_files, piece by piece
\* A worker step is the code between two points where the thread waits for the
\* operating system: the exit of an external process, or the call on the file
\* system whose answer decides how the run goes on. The lines logged after
\* one such point and before the next belong to the step; a config file is
\* opened in one step (there, 0 bytes) and written and closed in the next, and
\* a temporary file is looked for and removed in one. The result of one such piece: the file system after it, the log
\* lines, the command it started, how the command it waited for ended ("none"
\* when it waited for none), the config file written, and how the piece ended:
\* "ok" (go on at `to`), "false" (create_files returned False), "raise" (an
\* exception left create_files), "true" (create_files returned True).
Result(g, logs, status, to) ==
    [fs |-> g, logs |-> logs, invoked |-> <<>>, exit |-> "none", written |-> <<>>,
     cleaned |-> FALSE, status |-> status, exc |-> "none", to |-> to,
     generated_file |-> <<>>]

IsPrefix(a, b) == Len(a) <= Len(b) /\ SubSeq(b, 1, Len(a)) = a
IsSuffix(a, b) == Len(a) <= Len(b) /\ SubSeq(b, Len(b) - Len(a) + 1, Len(b)) = a

\* glob.glob(f"{filename}*_bbox.osm.xml"): the files whose name starts with the
\* base name and ends in _bbox.osm.xml.
GlobBbox(g, base) ==
    {f \in AllFiles : ExistsIn(g, f) /\ IsPrefix(base, f) /\ IsSuffix(BboxExt, f)}

\* The files a command reads, by extension: its input arguments.
Requires(desc) ==
    CASE desc = "OSM Download" -> {}
      [] desc = "Netconvert" -> {OsmExt}
      [] desc = "Polyconvert" -> {OsmExt}
      [] desc = "Random Trips" -> {NetExt}
      [] desc = "DUAROUTER" -> {NetExt, TripExt}

\* One invocation as the history keeps it: the command, whether every file it
\* reads was there when it was launched, whether run_command has returned, and
\* whether it returned True.
Invoked(g, base, desc) ==
    [tool |-> desc, ready |-> \A e \in Requires(desc) : ExistsIn(g, F(base, e)),
     exited |-> FALSE, ok |-> FALSE]

\* The history once run_command has returned from the command started last.
Exited(cs, exit) ==
    IF exit = "none" THEN cs
    ELSE [cs EXCEPT ![Len(cs)] = [@ EXCEPT !.exited = TRUE, !.ok = (exit = "ok")]]

\* run_command up to Popen: the lines `head` logged before the call, then
\* 'Running: ...'; the thread then waits at `to` for the process to exit.
Invoke(g, base, head, desc, to) ==
    [Result(g, head \o <<Msg("Running", desc)>>, "ok", to)
        EXCEPT !.invoked = <<Invoked(g, base, desc)>>]

\* run_command from the exit of the process on: the files the command left,
\* the lines logged, and the value returned.
Returned(g, base, desc, o) ==
    [Result(AfterCommand(g, base, o), ResultLogs(desc, o), "ok", "")
        EXCEPT !.exit = IF RunCommandOk(o) THEN "ok" ELSE "failed"]

Rename(g, src, dst) == [g EXCEPT ![dst] = g[src], ![src] = Absent]

\* MapDataStep without the test for an existing <base>.osm.
MapDataStepAlwaysDownloads(g, base) ==
    Invoke(g, base, <<Msg("No existing file", F(base, OsmExt))>>, "OSM Download", "wait1")

\* Step 1 from the answer of os.path.exists(osm_file) on: skip the download, or
\* start it.
MapDataStep(g, base) ==
    LET osm == F(base, OsmExt)
    IN  IF ExistsIn(g, osm)
        THEN Result(g, <<Msg("Found existing OSM file", osm),
                         Msg("Skipping download", osm)>>, "ok", "step2")
        ELSE Invoke(g, base, <<Msg("No existing file", osm)>>, "OSM Download", "wait1")

\* Step 1 from the exit of the downloader on.
Download(g, base, o) ==
    LET r == Returned(g, base, "OSM Download", o)
    IN  IF RunCommandOk(o) THEN [r EXCEPT !.to = "glob1"] ELSE [r EXCEPT !.status = "false"]

\* LocateDownload taking a downloader that exited 0 at its word.
LocateDownloadTrustsExitCode(g, base) ==
    LET generated_files == GlobBbox(g, base)
    IN  IF generated_files # {}
        THEN [Result(g, <<>>, "ok", "stale1")
                 EXCEPT !.generated_file = CHOOSE f \in generated_files : TRUE]
        ELSE IF ExistsIn(g, F(base, OsmXmlExt))
        THEN Result(g, <<>>, "ok", "rename1alt")
        ELSE Result(g, <<>>, "ok", "step2")

\* Step 1 from the answer of glob.glob on: the file the downloader left.
LocateDownload(g, base) ==
    LET generated_files == GlobBbox(g, base)
    IN  IF generated_files # {}
        THEN [Result(g, <<>>, "ok", "stale1")
                 EXCEPT !.generated_file = CHOOSE f \in generated_files : TRUE]
        ELSE IF ExistsIn(g, F(base, OsmXmlExt))
        THEN Result(g, <<>>, "ok", "rename1alt")
        ELSE Result(g, <<Msg("Error", "expected output file not found")>>, "false", "")

\* Step 1 from the answer of os.path.exists(osm_file) that precedes the rename
\* of the file glob found: a <base>.osm that is there is removed first.
StaleOsm(g, base) ==
    IF ExistsIn(g, F(base, OsmExt)) THEN Result(g, <<>>, "ok", "remove1")
    ELSE Result(g, <<>>, "ok", "rename1")

\* os.remove(osm_file): it raises when the file is no longer there.
RemoveOsm(g, base) ==
    LET osm == F(base, OsmExt)
    IN  IF ExistsIn(g, osm) THEN Result([g EXCEPT ![osm] = Absent], <<>>, "ok", "rename1")
        ELSE [Result(g, <<>>, "raise", "") EXCEPT !.exc = "remove"]

\* os.rename(generated_file, osm_file) and the line logged: os.rename raises
\* when the environment has it so, or when the file is no longer there.
RenameDownload(g, base, found, renameOk) ==
    LET osm == F(base, OsmExt)
    IN  IF renameOk /\ ExistsIn(g, found)
        THEN Result(Rename(g, found, osm),
                    <<Msg("Renamed downloaded file", found)>>, "ok", "step2")
        ELSE [Result(g, <<>>, "raise", "") EXCEPT !.exc = "rename"]

\* os.rename(f"{filename}.osm.xml", osm_file) and the line logged.
RenameOsmXml(g, base, renameOk) ==
    LET osm == F(base, OsmExt)
        alt == F(base, OsmXmlExt)
    IN  IF renameOk /\ ExistsIn(g, alt)
        THEN Result(Rename(g, alt, osm), <<Msg("Renamed", alt)>>, "ok", "step2")
        ELSE [Result(g, <<>>, "raise", "") EXCEPT !.exc = "rename"]

\* Step 2 from the exit of netconvert on.
NetconvertStep(g, base, o) ==
    LET r == Returned(g, base, "Netconvert", o)
    IN  IF RunCommandOk(o) THEN [r EXCEPT !.to = "step3"] ELSE [r EXCEPT !.status = "false"]

\* Step 3 from the answer of os.path.exists(typemap) on.
TypemapStep(g, base, typemap) ==
    IF typemap THEN Invoke(g, base, <<>>, "Polyconvert", "wait3")
    ELSE Result(g, <<Msg("Typemap not found", "skipping Polyconvert")>>, "ok", "step4")

\* PolyconvertStep with polyconvert treated as the other commands are.
PolyconvertStepMandatory(g, base, o) ==
    LET r == Returned(g, base, "Polyconvert", o)
    IN  IF RunCommandOk(o) THEN [r EXCEPT !.to = "step4"] ELSE [r EXCEPT !.status = "false"]

\* Step 3 from the exit of polyconvert on: its return value is not looked at.
PolyconvertStep(g, base, o) ==
    [Returned(g, base, "Polyconvert", o) EXCEPT !.to = "step4"]

\* Step 4 up to the start of randomTrips.py: the division comes first.
TripPeriodStep(g, base, end_time, num_trips) ==
    LET head == <<Msg("Step 4", "Random Trips")>>
    IN  IF num_trips = 0
        THEN [Result(g, head, "raise", "") EXCEPT !.exc = "ZeroDivisionError"]
        ELSE Invoke(g, base, head, "Random Trips", "wait4")

\* RandomTripsStep with the return value of run_command dropped.
RandomTripsStepIgnoresFailure(g, base, o) ==
    [Returned(g, base, "Random Trips", o) EXCEPT !.to = "step5"]

\* Step 4 from the exit of randomTrips.py on.
RandomTripsStep(g, base, o) ==
    LET r == Returned(g, base, "Random Trips", o)
    IN  IF RunCommandOk(o) THEN [r EXCEPT !.to = "step5"] ELSE [r EXCEPT !.status = "false"]

\* DuarouterStep going on to the config files whatever duarouter returned.
DuarouterStepIgnoresFailure(g, base, o) ==
    [Returned(g, base, "DUAROUTER", o) EXCEPT !.to = "step6"]

\* Step 5 from the exit of duarouter on.
DuarouterStep(g, base, o) ==
    LET r == Returned(g, base, "DUAROUTER", o)
    IN  IF RunCommandOk(o) THEN [r EXCEPT !.to = "step6"] ELSE [r EXCEPT !.status = "false"]

\* ------------------------------------------------------ the config writers
LaunchdContent(base) ==
    [kind |-> "launchd",
     copies |-> <<F(base, NetExt), F(base, RouExt), F(base, PolyExt),
                  F(base, SumoCfgExt)>>]

OmnetppContent(base, end_time) ==
    [kind |-> "omnetpp", network |-> base, limit |-> end_time,
     launchConfig |-> F(base, LaunchdExt)]

\* generate_sumocfg with the default duration written into the file.
SumocfgContentDefaultEnd(base, route_file, end_time) ==
    [kind |-> "sumocfg", net |-> F(base, NetExt), routes |-> route_file,
     additional |-> F(base, PolyExt), begin |-> 0, end |-> DefaultTime]

SumocfgContent(base, route_file, end_time) ==
    [kind |-> "sumocfg", net |-> F(base, NetExt), routes |-> route_file,
     additional |-> F(base, PolyExt), begin |-> 0, end |-> end_time]

\* The places of the worker in the config writers, in order: in open(name, 'w'),
\* and with the file open, in f.write and the close that ends the with block.
WritePc == <<"launchd6", "omnetpp6", "sumocfg6">>
FillPc == <<"launchd6w", "omnetpp6w", "sumocfg6w">>
\* The place after the i-th writer.
AfterWrite(i) == IF i < Len(WritePc) THEN WritePc[i + 1] ELSE "step7"

\* The i-th config file of step 6: its name, what is written, and the name the
\* environment knows it by when its open(name, 'w') is to raise.
ConfigFile(base, end_time, i) ==
    CASE i = 1 -> [name |-> F(base, LaunchdExt), content |-> LaunchdContent(base),
                   fault |-> "launchd"]
      [] i = 2 -> [name |-> OmnetppIni, content |-> OmnetppContent(base, end_time),
                   fault |-> "omnetpp"]
      [] i = 3 -> [name |-> F(base, SumoCfgExt),
                   content |-> SumocfgContent(base, F(base, RouExt), end_time),
                   fault |-> "sumocfg"]

\* OpenConfig with the exception of open swallowed: the run goes on with what
\* comes after the i-th writer.
OpenConfigSwallows(g, file, failAt, i) ==
    IF failAt = file.fault THEN Result(g, <<>>, "ok", AfterWrite(i))
    ELSE Result([g EXCEPT ![file.name] = Empty], <<>>, "ok", FillPc[i])

\* open(name, 'w') of the i-th writer: the file is created, or cut to 0 bytes.
OpenConfig(g, file, failAt, i) ==
    IF failAt = file.fault THEN [Result(g, <<>>, "raise", "") EXCEPT !.exc = "open"]
    ELSE Result([g EXCEPT ![file.name] = Empty], <<>>, "ok", FillPc[i])

\* f.write(content) and the close of one writer, then the log line.
WriteConfig(g, file, to) ==
    [Result([g EXCEPT ![file.name] = file.content],
            <<Msg("Created", file.name)>>, "ok", to)
        EXCEPT !.written = <<file.name>>]

\* ----------------------------------------------------------------- cleanup
TempFiles(base) == <<RoutesTmp, F(base, RouAltExt), F(base, TripExt)>>

\* The places of the worker in cleanup's loop, one for each temporary file.
CleanPc == <<"clean1", "clean2", "clean3">>

\* One turn of cleanup's loop: the file is removed if it is there; os.remove
\* raises for a file that is `stuck`, and the exception is swallowed. After
\* the last turn create_files returns True.
RemoveTemp(g, f, stuck, i) ==
    LET status == IF i = Len(CleanPc) THEN "true" ELSE "ok"
        to == IF i = Len(CleanPc) THEN "" ELSE CleanPc[i + 1]
    IN  IF ExistsIn(g, f) /\ ~stuck
        THEN Result([g EXCEPT ![f] = Absent], <<Msg("Removed temp file", f)>>, status, to)
        ELSE Result(g, <<>>, status, to)

\* -------------------------------------------------------- SumoWorker.run
\* What run() emits once create_files has ended, and where the worker goes.
\* run() without the except clause's finished_signal.emit(False).
RunTailDropsException(w, r) ==
    CASE r.status = "ok" -> <<>>
      [] r.status = "false" -> <<FinEv(w, FALSE)>>
      [] r.status = "raise" ->
            Logs(w, <<Msg("Unexpected Error", r.exc), Msg("Traceback", r.exc)>>)
      [] r.status = "true" ->
            Logs(w, <<Msg("PROCESS COMPLETE", ""),
                      Msg("Veins Launch File", F(config[w].filename, LaunchdExt)),
                      Msg("SUMO Config File", F(config[w].filename, SumoCfgExt))>>)
            \o <<FinEv(w, TRUE)>>

RunTail(w, r) ==
    CASE r.status = "ok" -> <<>>
      [] r.status = "false" -> <<FinEv(w, FALSE)>>
      [] r.status = "raise" ->
            Logs(w, <<Msg("Unexpected Error", r.exc), Msg("Traceback", r.exc)>>)
            \o <<FinEv(w, FALSE)>>
      [] r.status = "true" ->
            Logs(w, <<Msg("PROCESS COMPLETE", ""),
                      Msg("Veins Launch File", F(config[w].filename, LaunchdExt)),
                      Msg("SUMO Config File", F(config[w].filename, SumoCfgExt))>>)
            \o <<FinEv(w, TRUE)>>

\* One piece of the worker's run takes effect.
Commit(w, r) ==
    /\ fs' = r.fs
    /\ cmds' = [cmds EXCEPT ![w] = Exited(@, r.exit) \o r.invoked]
    /\ written' = [written EXCEPT ![w] = @ \o r.written]
    /\ cleaned' = [cleaned EXCEPT ![w] = @ \/ r.cleaned]
    /\ raised' = [raised EXCEPT ![w] = IF r.status = "raise" THEN r.exc ELSE @]
    /\ generated_file' = [generated_file EXCEPT ![w] =
                            IF r.generated_file # <<>> THEN r.generated_file ELSE @]
    /\ pc' = [pc EXCEPT ![w] = IF r.status = "ok" THEN r.to ELSE "done"]
    /\ Emit(w, Logs(w, r.logs) \o RunTail(w, r))
    /\ UNCHANGED <<guiVars, mapVars, environ, dirs, plan, config, sumo_home, connected>>

\* run() up to the call of find_sumo_and_add_path: the first line of the log.
RunStart(w) ==
    /\ pc[w] = "start"
    /\ pc' = [pc EXCEPT ![w] = "find"]
    /\ Emit(w, Logs(w, <<Msg("Starting SUMO Generation Process", "")>>))
    /\ UNCHANGED <<guiVars, mapVars, envVars, config, sumo_home, generated_file,
                   histVars, connected>>

\* find_sumo_and_add_path: SUMO_HOME of the environment as it is, else the
\* fallback directory if it exists, which is then put into the environment.
FindSumo(env, fallbackDir) ==
    IF env # "unset" THEN [found |-> TRUE, home |-> env, env |-> env]
    ELSE IF fallbackDir # NoDir
    THEN [found |-> TRUE, home |-> "fallback", env |-> "fallback"]
    ELSE [found |-> FALSE, home |-> "", env |-> env]

\* run() from the answer of find_sumo_and_add_path to the call of create_files.
FindSumoStep(w) ==
    /\ pc[w] = "find"
    /\ LET r == FindSumo(environ, dirs["fallback"])
       IN  /\ environ' = r.env
           /\ sumo_home' = [sumo_home EXCEPT ![w] = r.home]
           /\ IF r.found
              THEN /\ pc' = [pc EXCEPT ![w] = "step1"]
                   /\ Emit(w, Logs(w, <<Msg("Found SUMO_HOME", r.home)>>))
              ELSE /\ pc' = [pc EXCEPT ![w] = "done"]
                   /\ Emit(w, Logs(w, <<Msg("Error", "SUMO_HOME not found")>>)
                              \o <<FinEv(w, FALSE)>>)
    /\ UNCHANGED <<guiVars, mapVars, dirs, fs, plan, config, generated_file,
                   histVars, connected>>

\* The outcome of a command run by worker w: as the environment has it, except
\* that python, when it can be launched, finds no script in a SUMO_HOME that is
\* not there.
OutcomeOf(w, desc) ==
    LET o == ToolOutcome(desc, plan.tool[desc])
    IN  IF desc \in {"OSM Download", "Random Trips"} /\ dirs[sumo_home[w]] = NoDir
           /\ o.launch = "ok"
        THEN ScriptMissing
        ELSE o

Typemap(w) == dirs[sumo_home[w]] = "full"

\* Step 1: the header, up to the call of os.path.exists(osm_file).
Step1(w) ==
    /\ pc[w] = "step1"
    /\ Commit(w, Result(fs, <<Msg("Step 1", "Map Data Setup")>>, "ok", "exists1"))

Step1Exists(w) ==
    /\ pc[w] = "exists1"
    /\ Commit(w, MapDataStep(fs, config[w].filename))

Step1Exit(w) ==
    /\ pc[w] = "wait1"
    /\ Commit(w, Download(fs, config[w].filename, OutcomeOf(w, "OSM Download")))

Step1Glob(w) ==
    /\ pc[w] = "glob1"
    /\ Commit(w, LocateDownload(fs, config[w].filename))

\* Step 1, a file system call of the rename: the look for a stale <base>.osm,
\* its removal, the rename of the file glob found or of <base>.osm.xml.
Step1Rename(w) ==
    /\ pc[w] \in {"stale1", "remove1", "rename1", "rename1alt"}
    /\ Commit(w, CASE pc[w] = "stale1" -> StaleOsm(fs, config[w].filename)
                    [] pc[w] = "remove1" -> RemoveOsm(fs, config[w].filename)
                    [] pc[w] = "rename1" ->
                          RenameDownload(fs, config[w].filename, generated_file[w],
                                         plan.renameOk)
                    [] pc[w] = "rename1alt" ->
                          RenameOsmXml(fs, config[w].filename, plan.renameOk))

\* Step 2: the header and run_command up to Popen.
Step2(w) ==
    /\ pc[w] = "step2"
    /\ Commit(w, Invoke(fs, config[w].filename, <<Msg("Step 2", "Netconvert")>>,
                        "Netconvert", "wait2"))

Step2Exit(w) ==
    /\ pc[w] = "wait2"
    /\ Commit(w, NetconvertStep(fs, config[w].filename, OutcomeOf(w, "Netconvert")))

\* Step 3: the header, up to the call of os.path.exists(typemap).
Step3(w) ==
    /\ pc[w] = "step3"
    /\ Commit(w, Result(fs, <<Msg("Step 3", "Polyconvert")>>, "ok", "typemap3"))

Step3Exists(w) ==
    /\ pc[w] = "typemap3"
    /\ Commit(w, TypemapStep(fs, config[w].filename, Typemap(w)))

Step3Exit(w) ==
    /\ pc[w] = "wait3"
    /\ Commit(w, PolyconvertStep(fs, config[w].filename, OutcomeOf(w, "Polyconvert")))

Step4(w) ==
    /\ pc[w] = "step4"
    /\ Commit(w, TripPeriodStep(fs, config[w].filename, config[w].end_time,
                                config[w].num_trips))

Step4Exit(w) ==
    /\ pc[w] = "wait4"
    /\ Commit(w, RandomTripsStep(fs, config[w].filename, OutcomeOf(w, "Random Trips")))

Step5(w) ==
    /\ pc[w] = "step5"
    /\ Commit(w, Invoke(fs, config[w].filename, <<Msg("Step 5", "DUAROUTER")>>,
                        "DUAROUTER", "wait5"))

Step5Exit(w) ==
    /\ pc[w] = "wait5"
    /\ Commit(w, DuarouterStep(fs, config[w].filename, OutcomeOf(w, "DUAROUTER")))

\* Step 6: the header, up to the open of the first config file.
Step6(w) ==
    /\ pc[w] = "step6"
    /\ Commit(w, Result(fs, <<Msg("Step 6", "Writing Configuration Files")>>,
                        "ok", WritePc[1]))

\* A writer's open(name, 'w') returns or raises.
Step6Open(w) ==
    \E i \in 1..Len(WritePc) :
        /\ pc[w] = WritePc[i]
        /\ Commit(w, OpenConfig(fs, ConfigFile(config[w].filename, config[w].end_time, i),
                                plan.failAt, i))

\* A writer's with block ends: the content is in the file, the line is logged.
Step6Write(w) ==
    \E i \in 1..Len(FillPc) :
        /\ pc[w] = FillPc[i]
        /\ Commit(w, WriteConfig(fs, ConfigFile(config[w].filename, config[w].end_time, i),
                                 AfterWrite(i)))

\* Step 7: the header and the call of cleanup, up to its first look at a file.
Step7(w) ==
    /\ pc[w] = "step7"
    /\ Commit(w, [Result(fs, <<Msg("Step 7", "Cleaning up")>>, "ok", CleanPc[1])
                     EXCEPT !.cleaned = TRUE])

Step7Remove(w) ==
    \E i \in 1..Len(CleanPc) :
        /\ pc[w] = CleanPc[i]
        /\ Commit(w, RemoveTemp(fs, TempFiles(config[w].filename)[i], i \in plan.stuck, i))

\* ------------------------------------------------------------ the map page
\* JavaScript's null, and a runJavaScript call the page has not evaluated yet.
Null == [null |-> TRUE]
Call == [call |-> TRUE]

\* ((lon + 180) % 360 + 360) % 360 - 180 on doubles: each sum is rounded.
normalizeLon(lon) == AddD(RemD(AddD(RemD(AddD(lon, 180), 360), 360), 360), -180)

getSelectionBounds ==
    IF Cardinality(drawnItems) = 0 THEN Null
    ELSE [south |-> lastLayer.south, north |-> lastLayer.north,
          west |-> normalizeLon(lastLayer.west), east |-> normalizeLon(lastLayer.east)]

\* The CREATED handler without the removal of the previous layer.
DrawCreatedKeepsPrevious(b) ==
    /\ drawnItems' = drawnItems \cup {b}
    /\ lastLayer' = b
    /\ UNCHANGED <<guiVars, guiQueue, envVars, workerVars>>

\* L.Draw.Event.CREATED: the user finished drawing rectangle b.
DrawCreated(b) ==
    /\ drawnItems' = (IF lastLayer # Null THEN drawnItems \ {lastLayer} ELSE drawnItems)
                     \cup {b}
    /\ lastLayer' = b
    /\ UNCHANGED <<guiVars, guiQueue, envVars, workerVars>>

\* The draw control's remove tool (edit: {remove: true}) takes the layers out of
\* drawnItems; no handler of the page hears of it.
DrawDeleted ==
    /\ drawnItems # {}
    /\ drawnItems' = {}
    /\ UNCHANGED <<lastLayer, guiVars, guiQueue, envVars, workerVars>>

\* The page evaluates the oldest runJavaScript call not evaluated yet.
EvalJS ==
    /\ \E i \in 1..Len(jsCalls) :
          /\ jsCalls[i] = Call
          /\ \A j \in 1..(i - 1) : jsCalls[j] # Call
          /\ jsCalls' = [jsCalls EXCEPT ![i] = getSelectionBounds]
    /\ UNCHANGED <<btn_generate, log_view, msgbox, worker, tabs, filename_edit, time_spin,
                   trips_spin, trips_entered, mapVars, guiQueue, envVars, workerVars>>

\* ------------------------------------------------------------ the window
Created == {w \in Workers : pc[w] # "none"}
Active == {w \in Workers : pc[w] \notin {"none", "done", "aborted"}}

\* A click on the generate button: clicked is connected to start_process.
\* The user's clicks are followed as long as their callbacks can each start a
\* worker without going beyond MaxRuns.
StartProcess ==
    /\ btn_generate
    /\ Len(jsCalls) < MaxPending
    /\ Cardinality(Created) + Len(jsCalls) < MaxRuns
    /\ jsCalls' = Append(jsCalls, Call)
    /\ UNCHANGED <<btn_generate, log_view, msgbox, worker, tabs, filename_edit, time_spin,
                   trips_spin, trips_entered, mapVars, guiQueue, envVars, workerVars>>

\* The vehicles box with no range set: what is entered is the value.
SetTripsNoRange(n) ==
    /\ trips_entered' = n
    /\ trips_spin' = n
    /\ UNCHANGED <<btn_generate, log_view, jsCalls, msgbox, worker, tabs, filename_edit,
                   time_spin, mapVars, guiQueue, envVars, workerVars>>

\* The user enters the count n into the vehicles box. The box was given the
\* range MinTrips..MaxTrips: a count inside it becomes the value; one outside
\* is refused, and the value stays what it was or becomes the nearest count of
\* the range (typed text is put back, the arrows stop at the end of the range).
SetTrips(n) ==
    /\ trips_entered' = n
    /\ \E v \in IF n \in MinTrips..MaxTrips THEN {n}
                 ELSE {trips_spin, IF n < MinTrips THEN MinTrips ELSE MaxTrips} :
          trips_spin' = v
    /\ UNCHANGED <<btn_generate, log_view, jsCalls, msgbox, worker, tabs, filename_edit,
                   time_spin, mapVars, guiQueue, envVars, workerVars>>

\* A click of a user who waits for the page's answer before clicking again.
StartProcessIdle ==
    /\ jsCalls = <<>>
    /\ StartProcess

\* handle_bounds without the early return of the missing selection.
HandleBoundsUnchecked ==
    /\ jsCalls # <<>>
    /\ Head(jsCalls) = Null
    /\ Cardinality(Created) < MaxRuns
    /\ LET w == Cardinality(Created) + 1
       IN  /\ config' = [config EXCEPT ![w] =
                  [filename |-> filename_edit, bbox |-> Head(jsCalls),
                   end_time |-> time_spin, num_trips |-> trips_spin]]
           /\ worker' = w
           /\ connected' = [connected EXCEPT ![w] = TRUE]
           /\ pc' = [pc EXCEPT ![w] = "start"]
    /\ jsCalls' = Tail(jsCalls)
    /\ tabs' = 1
    /\ log_view' = [w \in Workers |-> <<>>]
    /\ btn_generate' = FALSE
    /\ UNCHANGED <<msgbox, filename_edit, time_spin, trips_spin, trips_entered, mapVars, guiQueue, envVars,
                   sumo_home, generated_file, histVars, emitted>>

\* handle_bounds called back with no selection.
HandleBoundsNone ==
    /\ jsCalls # <<>>
    /\ Head(jsCalls) = Null
    /\ jsCalls' = Tail(jsCalls)
    /\ msgbox' = "warning"
    /\ UNCHANGED <<btn_generate, log_view, worker, tabs, filename_edit, time_spin,
                   trips_spin, trips_entered, mapVars, guiQueue, envVars, workerVars>>

\* handle_bounds called back with the bounds of the selection.
HandleBoundsStart ==
    /\ jsCalls # <<>>
    /\ Head(jsCalls) \notin {Null, Call}
    /\ Cardinality(Created) < MaxRuns
    /\ LET w == Cardinality(Created) + 1
       IN  /\ config' = [config EXCEPT ![w] =
                  [filename |-> filename_edit, bbox |-> Head(jsCalls),
                   end_time |-> time_spin, num_trips |-> trips_spin]]
           /\ worker' = w
           /\ connected' = [connected EXCEPT ![w] = TRUE]
           /\ pc' = [pc EXCEPT ![w] = "start"]
    /\ jsCalls' = Tail(jsCalls)
    /\ tabs' = 1
    /\ log_view' = [w \in Workers |-> <<>>]
    /\ btn_generate' = FALSE
    /\ UNCHANGED <<msgbox, filename_edit, time_spin, trips_spin, trips_entered, mapVars, guiQueue, envVars,
                   sumo_home, generated_file, histVars, emitted>>

\* update_log setting the text of the view instead of appending to it.
update_log_replaces(view, text) == <<text>>

\* log_signal is connected to update_log: one line more in the log view.
update_log(view, text) == Append(view, text)

\* finished_signal is connected to process_finished: the button is enabled
\* again and a message box tells the outcome.
process_finished(success) ==
    [btn |-> TRUE, box |-> IF success THEN "information" ELSE "critical"]

\* The GUI thread's event loop runs the oldest slot call worker w has queued,
\* when that is a call of update_log: one line more in the log view.
UpdateLog(w) ==
    /\ guiQueue[w] # <<>>
    /\ Head(guiQueue[w]).kind = "log"
    /\ log_view' = [log_view EXCEPT ![w] = update_log(@, Head(guiQueue[w]).msg)]
    /\ guiQueue' = [guiQueue EXCEPT ![w] = Tail(@)]
    /\ UNCHANGED <<btn_generate, msgbox, jsCalls, worker, tabs, filename_edit, time_spin,
                   trips_spin, trips_entered, mapVars, envVars, workerVars>>

\* The GUI thread's event loop runs the oldest slot call worker w has queued,
\* when that is a call of process_finished.
ProcessFinished(w) ==
    /\ guiQueue[w] # <<>>
    /\ Head(guiQueue[w]).kind = "finished"
    /\ LET r == process_finished(Head(guiQueue[w]).ok)
       IN  /\ btn_generate' = r.btn
           /\ msgbox' = r.box
    /\ guiQueue' = [guiQueue EXCEPT ![w] = Tail(@)]
    /\ UNCHANGED <<log_view, jsCalls, worker, tabs, filename_edit, time_spin, trips_spin, trips_entered,
                   mapVars, envVars, workerVars>>

\* The threads still running whose SumoWorker handle_bounds has replaced in
\* self.worker: nothing in the program refers to their QThread objects.
Orphans == {w \in Active : w # worker}

\* The process is alive until a QThread is destroyed while its thread runs.
Alive == \A w \in Workers : pc[w] # "aborted"

\* A QThread object without a reference may be destroyed while its thread is
\* running, and Qt then aborts the process: no thread takes a step after that.
\* When, or whether, the object is destroyed is not the program's choice.
Abort ==
    /\ Alive
    /\ Orphans # {}
    /\ pc' = [w \in Workers |-> IF pc[w] = "none" THEN "none" ELSE "aborted"]
    /\ UNCHANGED <<guiVars, mapVars, guiQueue, envVars, config, sumo_home, generated_file,
                   histVars, emitted, connected>>

\* ------------------------------------------------------ the specifications
EmptyFs == [f \in AllFiles |-> Absent]
With(files) == [f \in AllFiles |-> IF f \in files THEN Data ELSE Absent]

\* The working directory at the start: empty, holding the map of an earlier
\* download, or also a stale temporary file.
InitialFs(base) ==
    {EmptyFs, With({F(base, OsmExt)}), With({F(base, OsmExt), RoutesTmp}),
     With({F(base, OsmXmlExt)})}

Installs ==
    { [env |-> "unset", envdir |-> NoDir, fallback |-> NoDir],
      [env |-> "unset", envdir |-> NoDir, fallback |-> "full"],
      [env |-> "envdir", envdir |-> "full", fallback |-> NoDir],
      [env |-> "envdir", envdir |-> "noTypemap", fallback |-> NoDir],
      [env |-> "envdir", envdir |-> NoDir, fallback |-> NoDir] }

NoConfig == [filename |-> <<>>, bbox |-> Null, end_time |-> 0, num_trips |-> 0]

\* The environment without a fault.
NominalPlan ==
    [tool |-> [d \in Descs |-> "ok"], renameOk |-> TRUE, failAt |-> "none", stuck |-> {}]

Flag(b) == IF b THEN 1 ELSE 0

Faults(p) ==
    Cardinality({d \in Descs : p.tool[d] # "ok"}) + Flag(~p.renameOk)
    + Flag(p.failAt # "none") + Cardinality(p.stuck)

ToolPlans(k) ==
    {t \in [Descs -> Kinds] :
        /\ Cardinality({d \in Descs : t[d] # "ok"}) <= k
        /\ \A d \in Descs : t[d] = "alt" => d = "OSM Download"}

OtherFaults ==
    [renameOk : BOOLEAN, failAt : {"none", "launchd", "omnetpp", "sumocfg"},
     stuck : SUBSET (1..3)]

\* Every environment with at most k faults.
Plans(k) ==
    {p \in {[tool |-> x[1], renameOk |-> x[2].renameOk, failAt |-> x[2].failAt,
             stuck |-> x[2].stuck] : x \in ToolPlans(k) \X OtherFaults} :
        Faults(p) <= k}

\* The environments of the window's runs: SUMO installed or not to be found,
\* every command working or the network build failing.
AppInstalls ==
    { [env |-> "envdir", envdir |-> "full", fallback |-> NoDir],
      [env |-> "unset", envdir |-> NoDir, fallback |-> NoDir] }
AppPlans == {NominalPlan, [NominalPlan EXCEPT !.tool["Netconvert"] = "fail"]}

InitCommon ==
    /\ btn_generate = TRUE
    /\ log_view = [w \in Workers |-> <<>>]
    /\ jsCalls = <<>>
    /\ msgbox = "none"
    /\ worker = NoWorker
    /\ tabs = 0
    /\ filename_edit = DefaultFilename
    /\ time_spin = DefaultTime
    /\ trips_spin = DefaultTrips
    /\ trips_entered = DefaultTrips
    /\ drawnItems = {}
    /\ lastLayer = Null
    /\ guiQueue = [w \in Workers |-> <<>>]
    /\ sumo_home = [w \in Workers |-> ""]
    /\ generated_file = [w \in Workers |-> <<>>]
    /\ cmds = [w \in Workers |-> <<>>]
    /\ written = [w \in Workers |-> <<>>]
    /\ cleaned = [w \in Workers |-> FALSE]
    /\ raised = [w \in Workers |-> "none"]
    /\ emitted = [w \in Workers |-> <<>>]
    /\ connected = [w \in Workers |-> FALSE]

InitEnv(installs, plans) ==
    /\ \E i \in installs :
          /\ environ = i.env
          /\ dirs = [d \in {"envdir", "fallback"} |-> IF d = "envdir" THEN i.envdir ELSE i.fallback]
    /\ plan \in plans

\* The window after SumoApp.__init__: no worker yet.
Init ==
    /\ InitCommon
    /\ InitEnv(AppInstalls, AppPlans)
    /\ fs = EmptyFs
    /\ pc = [w \in Workers |-> "none"]
    /\ config = [w \in Workers |-> NoConfig]

\* The step of worker w: the thread goes on from where it is.
WorkerStep(w) ==
    \/ RunStart(w)
    \/ FindSumoStep(w)
    \/ Step1(w)
    \/ Step1Exists(w)
    \/ Step1Exit(w)
    \/ Step1Glob(w)
    \/ Step1Rename(w)
    \/ Step2(w)
    \/ Step2Exit(w)
    \/ Step3(w)
    \/ Step3Exists(w)
    \/ Step3Exit(w)
    \/ Step4(w)
    \/ Step4Exit(w)
    \/ Step5(w)
    \/ Step5Exit(w)
    \/ Step6(w)
    \/ Step6Open(w)
    \/ Step6Write(w)
    \/ Step7(w)
    \/ Step7Remove(w)

WorkerNext == \E w \in Workers : WorkerStep(w)

\* The window of a user who clicks once at a time: every run goes through the
\* whole pipeline, and the next run starts after the button is enabled again.
Next ==
    \/ \E b \in Boxes : DrawCreated(b)
    \/ DrawDeleted
    \/ \E n \in TripEntries : SetTrips(n)
    \/ StartProcessIdle
    \/ EvalJS
    \/ HandleBoundsNone
    \/ HandleBoundsStart
    \/ \E w \in Workers : UpdateLog(w)
    \/ \E w \in Workers : ProcessFinished(w)
    \/ WorkerNext

Spec == Init /\ [][Next]_vars

\* The environments of the impatient user's runs: SUMO installed or not to be
\* found, and the download or the network build failing, so that a run ends in
\* step 2 at the latest.
ClickPlans ==
    {[NominalPlan EXCEPT !.tool[d] = "fail"] : d \in {"OSM Download", "Netconvert"}}

InitClicks ==
    /\ InitCommon
    /\ InitEnv(AppInstalls, ClickPlans)
    /\ fs = EmptyFs
    /\ pc = [w \in Workers |-> "none"]
    /\ config = [w \in Workers |-> NoConfig]

\* The steps of a worker up to the return of netconvert.
WorkerStep12(w) ==
    \/ RunStart(w)
    \/ FindSumoStep(w)
    \/ Step1(w)
    \/ Step1Exists(w)
    \/ Step1Exit(w)
    \/ Step1Glob(w)
    \/ Step1Rename(w)
    \/ Step2(w)
    \/ Step2Exit(w)

\* The window of a user who clicks again before the page has answered: the
\* callbacks start one worker each, and the threads run side by side.
NextClicks ==
    \/ Alive /\ \E b \in Boxes : DrawCreated(b)
    \/ Alive /\ DrawDeleted
    \/ Alive /\ StartProcess
    \/ Alive /\ EvalJS
    \/ Alive /\ HandleBoundsNone
    \/ Alive /\ HandleBoundsStart
    \/ Alive /\ \E w \in Workers : UpdateLog(w)
    \/ Alive /\ \E w \in Workers : ProcessFinished(w)
    \/ \E w \in Workers : WorkerStep12(w)
    \/ Abort

SpecClicks == InitClicks /\ [][NextClicks]_vars

\* Two SumoWorkers started side by side in one directory, no slot connected.
InitWorkers ==
    /\ InitCommon
    /\ InitEnv({i \in AppInstalls : i.env # "unset"}, AppPlans)
    /\ fs = EmptyFs
    /\ pc = [w \in Workers |-> "start"]
    /\ config = [w \in Workers |->
                   [filename |-> DefaultFilename, bbox |-> CHOOSE b \in Boxes : TRUE,
                    end_time |-> DefaultTime, num_trips |-> DefaultTrips]]

SpecWorkers == InitWorkers /\ [][WorkerNext]_vars

\* The rectangles drawn on the map page: one inside [-180, 180), one that
\* crosses the antimeridian, one on a copy of the world further east.
MapBoxes ==
    Boxes \cup {[south |-> -10, north |-> 10, west |-> Whole(170), east |-> Whole(190)],
                [south |-> 34, north |-> 35, west |-> Whole(241), east |-> Whole(242)]}

\* The window and its map page up to the start of a run: rectangles are drawn
\* and deleted, the button is clicked, the page answers, handle_bounds runs.
NextMap ==
    \/ \E b \in MapBoxes : DrawCreated(b)
    \/ DrawDeleted
    \/ StartProcess
    \/ EvalJS
    \/ HandleBoundsNone
    \/ HandleBoundsStart

SpecMap == Init /\ [][NextMap]_vars

\* Fractions of a degree, as limbs: none, 2^-44, 1 - 2^-44, and the fractions
\* of the doubles nearest to 200.3 and to -200.3 (above its floor -201).
LonFractions ==
    {<<0, 0>>, <<0, 2>>, <<4194303, 8388606>>, <<1258291, 1677722>>, <<2936012, 6710886>>}

\* Rectangles one degree wide whose west edge is any of these doubles, up to
\* MaxLon whole degrees either side of 0.
LonBoxes ==
    {b \in {[south |-> 34, north |-> 35, west |-> Dbl(l, f[1], f[2]),
             east |-> Dbl(l + 1, f[1], f[2])] : l \in -MaxLon..MaxLon, f \in LonFractions} :
        IsDouble(b.west) /\ IsDouble(b.east)}

\* The user draws the first rectangle before clicking.
DrawFirst ==
    /\ jsCalls = <<>>
    /\ lastLayer = Null
    /\ \E b \in LonBoxes : DrawCreated(b)

\* One rectangle anywhere, then the clicks and the page's answers.
NextLon ==
    \/ DrawFirst
    \/ StartProcess
    \/ EvalJS
    \/ HandleBoundsStart

SpecLon == Init /\ [][NextLon]_vars

\* One SumoWorker constructed with a config and started, with no slot connected.
InitWorker ==
    /\ InitCommon
    /\ InitEnv(Installs, Plans(MaxFaults))
    /\ pc = [w \in Workers |-> IF w = 1 THEN "start" ELSE "none"]
    /\ \E name \in Bases, b \in Boxes, t \in DirectTimes, n \in DirectTrips :
          /\ config = [w \in Workers |->
                         IF w = 1 THEN [filename |-> name, bbox |-> b,
                                        end_time |-> t, num_trips |-> n]
                         ELSE NoConfig]
          /\ fs \in InitialFs(name)

SpecWorker == InitWorker /\ [][WorkerNext]_vars

\* ------------------------------------------------------------ the claims
FinishedSignals(w) == SelectSeq(emitted[w], LAMBDA e : e.kind = "finished")
Succeeded(w) == FinishedSignals(w) = <<FinEv(w, TRUE)>>
Failed(w) == FinishedSignals(w) = <<FinEv(w, FALSE)>>
Logged(w, m) == \E i \in 1..Len(emitted[w]) : emitted[w][i] = LogEv(w, m)
Ran(w, desc) == \E i \in 1..Len(cmds[w]) : cmds[w][i].tool = desc
RanOk(w, desc) == \E i \in 1..Len(cmds[w]) : cmds[w][i].tool = desc /\ cmds[w][i].ok
RanBadly(w, desc) ==
    \E i \in 1..Len(cmds[w]) :
        cmds[w][i].tool = desc /\ cmds[w][i].exited /\ ~cmds[w][i].ok
Mandatory == {"OSM Download", "Netconvert", "Random Trips", "DUAROUTER"}
ConfigFiles(base) == {F(base, LaunchdExt), OmnetppIni, F(base, SumoCfgExt)}

\* C1: once the command of a mandatory step (OSM download, netconvert, random
\* trips, duarouter) has failed, it is the last command of the run, the run has
\* written no config file, has not cleaned up, and has ended with the failure
\* signal as its only outcome.
C1_MandatoryFailureAborts ==
    \A w \in Workers : \A i \in 1..Len(cmds[w]) :
        (cmds[w][i].tool \in Mandatory /\ cmds[w][i].exited /\ ~cmds[w][i].ok) =>
            /\ i = Len(cmds[w])
            /\ written[w] = <<>>
            /\ \A f \in ConfigFiles(config[w].filename) : ~Exists(f)
            /\ ~cleaned[w]
            /\ pc[w] = "done"
            /\ Failed(w)

\* A run whose random-trip generation failed after two commands that worked.
C1_Witness ==
    \E w \in Workers :
        /\ Len(cmds[w]) >= 3
        /\ RanOk(w, "Netconvert")
        /\ RanBadly(w, "Random Trips")

PolygonsFailedOrSkipped(w) ==
    \/ RanBadly(w, "Polyconvert")
    \/ Logged(w, Msg("Typemap not found", "skipping Polyconvert"))

\* C2: when polyconvert failed or was skipped for want of the typemap, the run
\* goes on to the trip generation step (and starts the random-trip command
\* unless the division raises), and if the random-trip command and duarouter
\* succeed and nothing raises, the run ends with the success signal.
C2_PolygonFailureContinues ==
    \A w \in Workers :
        PolygonsFailedOrSkipped(w) =>
            /\ pc[w] = "step4" \/ Logged(w, Msg("Step 4", "Random Trips"))
            /\ (pc[w] # "step4" /\ config[w].num_trips # 0) => Ran(w, "Random Trips")
            /\ (pc[w] = "done" /\ RanOk(w, "Random Trips") /\ RanOk(w, "DUAROUTER")
                /\ raised[w] = "none") => Succeeded(w)

\* A run that succeeded although polyconvert failed.
C2_Witness ==
    \E w \in Workers : RanBadly(w, "Polyconvert") /\ Succeeded(w)

NewCmds(w) == SubSeq(cmds'[w], Len(cmds[w]) + 1, Len(cmds'[w]))

\* C3: when <base>.osm exists as step 1 looks for it, the step invokes no
\* command and changes no file, the run goes on to netconvert, and no later
\* step of the run invokes the downloader.
C3_ExistingOsmSkipsDownload ==
    [][\A w \in Workers :
        /\ (pc[w] = "exists1" /\ pc'[w] # "exists1"
            /\ Exists(F(config[w].filename, OsmExt))) =>
                (pc'[w] = "step2" /\ cmds'[w] = cmds[w] /\ fs' = fs)
        /\ pc[w] # "exists1" =>
                \A i \in 1..Len(NewCmds(w)) : NewCmds(w)[i].tool # "OSM Download"]_vars
    /\ [](\A w \in Workers :
            Logged(w, Msg("Found existing OSM file", F(config[w].filename, OsmExt))) =>
                ~Ran(w, "OSM Download"))

\* A run waiting for netconvert that has invoked nothing else, with the
\* <base>.osm it found in place.
C3_Witness ==
    \E w \in Workers :
        /\ pc[w] = "wait2"
        /\ Len(cmds[w]) = 1
        /\ ~Ran(w, "OSM Download")
        /\ Exists(F(config[w].filename, OsmExt))
        /\ Logged(w, Msg("Skipping download", F(config[w].filename, OsmExt)))

\* C4, as the specification states it: at most one run is in progress at any
\* time, because the Generate button is disabled while a run is active.
C4_AtMostOneActiveRun == Cardinality(Active) <= 1

\* C5, as the specification states it: every command that was invoked found
\* the file its step consumes (netconvert <base>.osm, polyconvert and the
\* random-trip script <base>.net.xml, duarouter <base>.net.xml and
\* <base>.trips.xml) already on disk.
C5_InputsExistWhenInvoked ==
    \A w \in Workers : \A i \in 1..Len(cmds[w]) : cmds[w][i].ready

\* The files a written config file names.
Referenced(f) ==
    IF fs[f].kind = "launchd" THEN {fs[f].copies[i] : i \in 1..Len(fs[f].copies)}
    ELSE IF fs[f].kind = "sumocfg" THEN {fs[f].net, fs[f].routes, fs[f].additional}
    ELSE IF fs[f].kind = "omnetpp" THEN {fs[f].launchConfig}
    ELSE {}

\* C6, as the specification states it: when a run has reported success, the
\* launch descriptor, the simulator run config and omnetpp.ini are on disk and
\* every file they name (<base>.net.xml, <base>.rou.xml, <base>.poly.xml,
\* <base>.sumo.cfg, <base>.launchd.xml) exists.
C6_SuccessIsSelfConsistent ==
    \A w \in Workers :
        Succeeded(w) =>
            \A f \in ConfigFiles(config[w].filename) :
                /\ Exists(f)
                /\ \A r \in Referenced(f) : Exists(r)

NoSumoDirectory ==
    /\ environ = "unset" \/ dirs[environ] = NoDir
    /\ dirs["fallback"] = NoDir

\* C7, as the specification states it: when neither SUMO_HOME nor the fallback
\* path is an existing directory, no run invokes an external command and every
\* run that has ended has failed.
C7_NoSumoDirectoryNoCommand ==
    NoSumoDirectory =>
        \A w \in Workers :
            /\ cmds[w] = <<>>
            /\ pc[w] \in {"none", "start", "find", "done"}
            /\ pc[w] = "done" => Failed(w)

\* C8: handling a bounds callback that reports no selection shows the
\* warning box and nothing else: no worker is created or started, no command
\* runs, no file changes, the log view is not cleared, and the generate button
\* is left as it was.
C8_NoSelectionStartsNothing ==
    [][(jsCalls # <<>> /\ Head(jsCalls) = Null /\ jsCalls' = Tail(jsCalls)) =>
            /\ msgbox' = "warning"
            /\ UNCHANGED <<worker, pc, config, connected, cmds, fs, written, cleaned,
                           emitted, guiQueue, log_view, tabs, btn_generate>>]_vars

\* The warning is up, no worker was ever created and the button is enabled.
C8_Witness ==
    /\ msgbox = "warning"
    /\ Created = {}
    /\ worker = NoWorker
    /\ jsCalls = <<>>
    /\ btn_generate

\* The working directory g once the file src has been renamed to dst.
Renamed(g, src, dst) ==
    [f \in AllFiles |-> IF f = dst THEN g[src] ELSE IF f = src THEN Absent ELSE g[f]]

\* C9: when step 1 has to download and the download command succeeds, then of
\* what the command left in the working directory <base>_bbox.osm.xml is
\* renamed to <base>.osm, else <base>.osm.xml is renamed to <base>.osm, else
\* the run ends in failure with the download as its only command; a rename
\* that raises ends the run in failure too. And no step leaves a run at
\* step 2 without <base>.osm on disk.
C9_DownloadOutputRenamed ==
    [][\A w \in Workers :
        LET base == config[w].filename
            osm == F(base, OsmExt)
            bbox == F(base, BboxExt)
            alt == F(base, OsmXmlExt)
            o == OutcomeOf(w, "OSM Download")
            Ended == /\ pc'[w] = "done"
                     /\ Failed(w)'
                     /\ Len(cmds'[w]) = 1
        IN  /\ (pc[w] = "wait1" /\ pc'[w] # "wait1" /\ RunCommandOk(o)) =>
                   (pc'[w] = "glob1" /\ fs' = AfterCommand(fs, base, o))
            /\ (pc[w] = "glob1" /\ pc'[w] # "glob1") =>
                   /\ fs' = fs
                   /\ IF Exists(bbox)
                      THEN pc'[w] = "stale1" /\ generated_file'[w] = bbox
                      ELSE IF Exists(alt)
                      THEN pc'[w] = "rename1alt"
                      ELSE Ended /\ raised'[w] = "none"
            /\ (pc[w] = "stale1" /\ pc'[w] # "stale1") =>
                   (fs' = fs /\ pc'[w] = IF Exists(osm) THEN "remove1" ELSE "rename1")
            /\ (pc[w] = "remove1" /\ pc'[w] # "remove1") =>
                   IF Exists(osm)
                   THEN fs' = [fs EXCEPT ![osm] = Absent] /\ pc'[w] = "rename1"
                   ELSE Ended /\ raised'[w] = "remove"
            /\ (pc[w] = "rename1" /\ pc'[w] # "rename1") =>
                   IF plan.renameOk /\ Exists(generated_file[w])
                   THEN fs' = Renamed(fs, generated_file[w], osm) /\ pc'[w] = "step2"
                   ELSE Ended /\ raised'[w] = "rename"
            /\ (pc[w] = "rename1alt" /\ pc'[w] # "rename1alt") =>
                   IF plan.renameOk /\ Exists(alt)
                   THEN fs' = Renamed(fs, alt, osm) /\ pc'[w] = "step2"
                   ELSE Ended /\ raised'[w] = "rename"
            /\ (pc'[w] = "step2" /\ pc[w] # "step2") => ExistsIn(fs', osm)]_vars

\* A run at step 2 whose <base>.osm is the renamed <base>.osm.xml.
C9_Witness ==
    \E w \in Workers :
        /\ pc[w] = "step2"
        /\ RanOk(w, "OSM Download")
        /\ Logged(w, Msg("Renamed", F(config[w].filename, OsmXmlExt)))
        /\ Exists(F(config[w].filename, OsmExt))
        /\ ~Exists(F(config[w].filename, OsmXmlExt))

Temporaries(base) == {RoutesTmp, F(base, RouAltExt), F(base, TripExt)}
Artifacts(base) ==
    {F(base, e) : e \in {OsmExt, NetExt, PolyExt, RouExt, LaunchdExt, SumoCfgExt}}
    \cup {OmnetppIni}

\* C10, as the specification states it: the cleanup step removes every
\* temporary file (routes.rou.xml, <base>.rou.alt.xml, <base>.trip.xml) that
\* exists and can be deleted, changes no other file, in particular none of
\* <base>.osm, .net.xml, .poly.xml, .rou.xml and the three configs, and the
\* run ends in success.
C10_CleanupFrame ==
    [][\A w \in Workers :
        \A i \in 1..Len(CleanPc) :
            (pc[w] = CleanPc[i] /\ pc'[w] # pc[w]) =>
                LET base == config[w].filename
                    undeletable == {TempFiles(base)[k] : k \in plan.stuck}
                IN  /\ \A f \in AllFiles \ Temporaries(base) : fs'[f] = fs[f]
                    /\ \A f \in Artifacts(base) : fs'[f] = fs[f]
                    /\ TempFiles(base)[i] \notin undeletable =>
                           ~ExistsIn(fs', TempFiles(base)[i])
                    /\ pc'[w] = "done" =>
                           /\ \A f \in Temporaries(base) \ undeletable : ~ExistsIn(fs', f)
                           /\ Succeeded(w)']_vars

\* The bounds the page reports for layer b.
Reported(b) ==
    [south |-> b.south, north |-> b.north,
     west |-> normalizeLon(b.west), east |-> normalizeLon(b.east)]

\* C11: the drawn-items group never holds more than one layer; when it holds
\* one, it is the rectangle drawn last (lastLayer) and getSelectionBounds
\* reports its bounds; when it is empty getSelectionBounds reports null.
C11_AtMostOneSelection ==
    /\ Cardinality(drawnItems) <= 1
    /\ drawnItems # {} => (drawnItems = {lastLayer}
                           /\ getSelectionBounds = Reported(lastLayer))
    /\ drawnItems = {} => getSelectionBounds = Null

\* The page has reported one rectangle, and the selection is now another one
\* drawn after it.
C11_Witness ==
    /\ \E i \in 1..Len(jsCalls) : \E b \in MapBoxes \ {lastLayer} :
           jsCalls[i] = Reported(b) /\ Reported(b) # Reported(lastLayer)
    /\ drawnItems = {lastLayer}

InRange(lon) == -180 <= lon.k /\ lon.k < 180
Normalized(x) ==
    /\ InRange(normalizeLon(x))
    /\ normalizeLon(normalizeLon(x)) = normalizeLon(x)

\* C12, as the specification states it: for the longitudes x of the drawn
\* rectangle, negative ones and ones beyond 360 either side included,
\* normalizeLon(x) lies in [-180, 180) and normalizeLon(normalizeLon(x)) =
\* normalizeLon(x); the bounds the page reports carry exactly these values.
C12_NormalizeLon ==
    lastLayer # Null =>
        /\ Normalized(lastLayer.west)
        /\ Normalized(lastLayer.east)
        /\ \A i \in 1..Len(jsCalls) :
               jsCalls[i] # Call =>
                   /\ jsCalls[i].west = normalizeLon(lastLayer.west)
                   /\ jsCalls[i].east = normalizeLon(lastLayer.east)
                   /\ InRange(jsCalls[i].west) /\ InRange(jsCalls[i].east)

\* The texts of the log events of a sequence of signals, in order.
LogTexts(s) ==
    LET ls == SelectSeq(s, LAMBDA e : e.kind = "log")
    IN  [i \in 1..Len(ls) |-> ls[i].msg]

\* C13: for every run, the slot calls still queued are the latest signals the
\* worker emitted, in emission order; the lines of the run in the log view
\* followed by the queued texts are the texts the worker emitted, one line per
\* event, in order and without a gap (all of them for the latest run, those
\* since the view was last cleared for an earlier one); and the outcome signal
\* is the last signal of the run, so it is received after every log event.
C13_LogStreamFifo ==
    \A w \in Workers :
        /\ IsSuffix(guiQueue[w], emitted[w])
        /\ IsSuffix(log_view[w] \o LogTexts(guiQueue[w]), LogTexts(emitted[w]))
        /\ w = worker => log_view[w] \o LogTexts(guiQueue[w]) = LogTexts(emitted[w])
        /\ \A i \in 1..Len(emitted[w]) :
               emitted[w][i].kind = "finished" => i = Len(emitted[w])

\* A successful run whose every signal has been delivered: the view holds all
\* its lines and the success box is up.
C13_Witness ==
    \E w \in Workers :
        /\ w = worker
        /\ Succeeded(w)
        /\ guiQueue[w] = <<>>
        /\ log_view[w] = LogTexts(emitted[w])
        /\ Len(log_view[w]) > 10
        /\ msgbox = "information"

WrittenBy(w) == {written[w][i] : i \in 1..Len(written[w])}

\* C14: the simulator run config a run has written has begin 0, end equal to
\* the run's duration, and names <base>.net.xml, <base>.rou.xml and
\* <base>.poly.xml; the omnetpp.ini it has written has the same duration as
\* its time limit and names <base>.launchd.xml, which the same run wrote
\* before it.
C14_ConfigContents ==
    \A w \in Workers :
        LET base == config[w].filename
            sumocfg == F(base, SumoCfgExt)
            launchd == F(base, LaunchdExt)
        IN  /\ sumocfg \in WrittenBy(w) =>
                   /\ fs[sumocfg].kind = "sumocfg"
                   /\ fs[sumocfg].begin = 0
                   /\ fs[sumocfg].end = config[w].end_time
                   /\ fs[sumocfg].net = F(base, NetExt)
                   /\ fs[sumocfg].routes = F(base, RouExt)
                   /\ fs[sumocfg].additional = F(base, PolyExt)
            /\ OmnetppIni \in WrittenBy(w) =>
                   /\ fs[OmnetppIni].kind = "omnetpp"
                   /\ fs[OmnetppIni].limit = config[w].end_time
                   /\ fs[OmnetppIni].launchConfig = launchd
                   /\ launchd \in WrittenBy(w)
                   /\ fs[launchd].kind = "launchd"

\* A run of 7200 seconds has written its three config files.
C14_Witness ==
    \E w \in Workers :
        /\ config[w].end_time = 7200
        /\ Len(written[w]) = 3
        /\ fs[F(config[w].filename, SumoCfgExt)].end = 7200
        /\ fs[OmnetppIni].limit = 7200

Rank(desc) ==
    CASE desc = "OSM Download" -> 1
      [] desc = "Netconvert" -> 2
      [] desc = "Polyconvert" -> 3
      [] desc = "Random Trips" -> 4
      [] desc = "DUAROUTER" -> 5

\* C15: the commands of a run were invoked in the order downloader,
\* netconvert, polyconvert, random trips, duarouter, none twice, none before
\* the runtime was located, none before the command invoked before it has
\* exited, and none without the mandatory command before it having exited zero; a config file is written only after duarouter exited
\* zero, cleanup runs only after the three config files were written, and a
\* run that reported success ran cleanup and every mandatory command it ran
\* exited zero.
C15_StepOrder ==
    \A w \in Workers :
        /\ \A i, j \in 1..Len(cmds[w]) :
               i < j => (Rank(cmds[w][i].tool) < Rank(cmds[w][j].tool) /\ cmds[w][i].exited)
        /\ cmds[w] # <<>> => Logged(w, Msg("Found SUMO_HOME", sumo_home[w]))
        /\ (Ran(w, "Polyconvert") \/ Ran(w, "Random Trips")) => RanOk(w, "Netconvert")
        /\ Ran(w, "Netconvert") => (Ran(w, "OSM Download") => RanOk(w, "OSM Download"))
        /\ Ran(w, "DUAROUTER") => RanOk(w, "Random Trips")
        /\ written[w] # <<>> => RanOk(w, "DUAROUTER")
        /\ cleaned[w] => written[w] = <<F(config[w].filename, LaunchdExt), OmnetppIni,
                                        F(config[w].filename, SumoCfgExt)>>
        /\ Succeeded(w) =>
               /\ cleaned[w]
               /\ \A i \in 1..Len(cmds[w]) :
                      cmds[w][i].tool \in Mandatory => cmds[w][i].ok

\* A successful run that invoked all five commands.
C15_Witness ==
    \E w \in Workers :
        /\ Succeeded(w)
        /\ Len(cmds[w]) = 5
        /\ cleaned[w]

\* C16: a run that has ended has emitted exactly one outcome signal, a run
\* that has not ended has emitted none and can take its next step, the outcome
\* signal is the last signal of the run, and success is emitted only when
\* create_files returned True: all seven steps done, nothing raised.
C16_ExactlyOneOutcome ==
    \A w \in Workers :
        /\ pc[w] = "done" => Len(FinishedSignals(w)) = 1
        /\ pc[w] # "done" => FinishedSignals(w) = <<>>
        /\ pc[w] \notin {"none", "done"} =>
               ENABLED WorkerStep(w)
        /\ \A i \in 1..Len(emitted[w]) :
               emitted[w][i].kind = "finished" => i = Len(emitted[w])
        /\ Succeeded(w) =>
               /\ cleaned[w]
               /\ Len(written[w]) = 3
               /\ raised[w] = "none"
               /\ Logged(w, Msg("PROCESS COMPLETE", ""))

\* A run that ended at once for want of SUMO, with failure as its one outcome.
C16_Witness ==
    \E w \in Workers :
        /\ pc[w] = "done"
        /\ Failed(w)
        /\ cmds[w] = <<>>
        /\ Logged(w, Msg("Error", "SUMO_HOME not found"))

\* C17: an exception that leaves create_files ends the run: it is logged as an
\* unexpected error, the outcome is failure, and no later step runs. The three
\* cases of the model: the rename of the downloaded file raises (the download
\* is the run's only command), the division by a vehicle count of 0 raises
\* (no random-trip command, no duarouter, no config file; no config built from
\* the vehicles box has such a count), a config file cannot be opened (no
\* later config file, no cleanup).
C17_ExceptionsBecomeFailure ==
    \A w \in Workers :
        LET base == config[w].filename
        IN  /\ raised[w] # "none" =>
                   /\ pc[w] = "done"
                   /\ Failed(w)
                   /\ Logged(w, Msg("Unexpected Error", raised[w]))
                   /\ ~cleaned[w]
                   /\ Len(written[w]) < 3
            /\ (~plan.renameOk /\ RanOk(w, "OSM Download")
                /\ pc[w] \notin {"glob1", "stale1", "remove1", "rename1", "rename1alt"}
                /\ (Exists(F(base, BboxExt)) \/ Exists(F(base, OsmXmlExt)))) =>
                   (raised[w] = "rename" /\ Len(cmds[w]) = 1)
            /\ (config[w].num_trips = 0 /\ RanOk(w, "Netconvert")
                /\ pc[w] \notin {"step3", "typemap3", "wait3", "step4"}) =>
                   /\ raised[w] = "ZeroDivisionError"
                   /\ ~Ran(w, "Random Trips") /\ ~Ran(w, "DUAROUTER")
                   /\ written[w] = <<>>
            /\ (plan.failAt # "none" /\ RanOk(w, "DUAROUTER")
                /\ pc[w] \notin {"step6", "launchd6", "launchd6w", "omnetpp6", "omnetpp6w",
                              "sumocfg6"}) =>
                   (raised[w] = "open" /\ Failed(w))

\* A run ended by a config file that could not be written, after the launch
\* descriptor had been.
C17_Witness ==
    \E w \in Workers :
        /\ raised[w] = "open"
        /\ Len(written[w]) = 1
        /\ Failed(w)
        /\ Logged(w, Msg("Unexpected Error", "open"))

LaterSteps == {"step2", "step3", "step4", "step5", "step6", "step7"}

\* C19, as the specification states it: when a run starts a pipeline step
\* after the first, every signal it emitted in the steps before has been
\* delivered to the window (none is still queued).
C19_LogsDeliveredBeforeNextStep ==
    [][\A w \in Workers :
        (pc[w] \in LaterSteps /\ pc'[w] # pc[w]) => guiQueue[w] = <<>>]_vars

\* C20, as the specification states it: the generate button is disabled as
\* long as a run is active.
C20_ButtonDisabledWhileActive == Active # {} => ~btn_generate

====
